---------------------------- MODULE Spec2Model ----------------------------
(***************************************************************************)
(* A model of the natal chart engine of src/app.py: the sign resolver, the *)
(* house assigner, the aspect detector and the /calculate request handler. *)
(*                                                                         *)
(* Numbers.  An angle or a speed stored by the program is rounded to six   *)
(* decimals (round(x, 6)); the model counts such values in ticks of 1e-6   *)
(* degree, so 360 degrees is 360 * Micro ticks.  A value the Ephemeris     *)
(* Provider returns, before rounding, carries one more decimal digit: it   *)
(* is a record [t |-> ticks, f |-> tenths of a tick], of value t + f/10    *)
(* with f in 0..9 (t is the floor).  Arithmetic is exact: the binary       *)
(* rounding of Python floats is not modelled.                              *)
(***************************************************************************)
EXTENDS Integers, Sequences, FiniteSets, TLC

VARIABLES
    pc,             \* position of the request handler, or of a function call
    args,           \* arguments of the function under study
    result,         \* its return value and the locals the claims speak of
    data,           \* the request's JSON body
    parsed,         \* year, month, day, hour, minute, latitude, longitude, timezone
    utc,            \* what convert_local_to_utc returned
    julian_day,     \* what calculate_julian_day returned
    houses_data,    \* what calculate_houses returned
    planets,        \* the planets dict: keys in insertion order and their values
    failed_planets, \* the failed_planets list
    aspects,        \* what calculate_aspects returned
    response,       \* the HTTP response of the request
    calls           \* the computations performed so far, in order

vars == <<pc, args, result, data, parsed, utc, julian_day, houses_data,
          planets, failed_planets, aspects, response, calls>>

\* Python's None, and a dict value or a result not yet set
None == [none |-> TRUE]

-----------------------------------------------------------------------------
(* Numbers *)

\* ticks per degree: round(x, 6) keeps six decimals
Micro == 1000000

Deg(d) == d * Micro

Full == Deg(360)

Half == Deg(180)

Abs(x) == IF x < 0 THEN -x ELSE x

Min(a, b) == IF a < b THEN a ELSE b

\* an exact value of whole ticks as a provider value
Dec(t) == [t |-> t, f |-> 0]

\* round(x, 6) of a provider value x: to the nearest tick, a tie to the even one
Round6(x) ==
    IF x.f > 5 \/ (x.f = 5 /\ x.t % 2 = 1) THEN x.t + 1 ELSE x.t

\* round(x, 2) of a non-negative value x: to the nearest 10^4 ticks, a tie to
\* the even one
Round2(x) ==
    LET q == x.t \div 10000
        r == x.t % 10000
        up == \/ r > 5000
              \/ (r = 5000 /\ x.f > 0)
              \/ (r = 5000 /\ x.f = 0 /\ q % 2 = 1)
    IN  IF up THEN (q + 1) * 10000 ELSE q * 10000

-----------------------------------------------------------------------------
(* Sign Resolver: get_sign *)

\* (the names are written without their accents)
SIGNS == <<"Aries", "Tauro", "Geminis", "Cancer", "Leo", "Virgo",
           "Libra", "Escorpio", "Sagitario", "Capricornio", "Acuario", "Piscis">>

\* a normalisation that folds negative longitudes by their absolute value
sign_normalized_lon_abs(longitude) ==
    [t |-> (IF longitude.t < 0 THEN -longitude.t - (IF longitude.f > 0 THEN 1 ELSE 0)
            ELSE longitude.t) % Full,
     f |-> IF longitude.t < 0 /\ longitude.f > 0 THEN 10 - longitude.f ELSE longitude.f]

\* normalized_lon = longitude % 360, then + 360 if negative (Python's % of a
\* positive modulus is never negative: the branch is kept as written)
sign_normalized_lon(longitude) ==
    LET m == [t |-> longitude.t % Full, f |-> longitude.f]
    IN  IF m.t < 0 THEN [m EXCEPT !.t = m.t + Full] ELSE m

\* sign_index = int(normalized_lon / 30)
sign_index(normalized_lon) == normalized_lon.t \div Deg(30)

get_sign(longitude) ==
    LET normalized_lon == sign_normalized_lon(longitude)
        idx == sign_index(normalized_lon)
        degree == [t |-> normalized_lon.t % Deg(30), f |-> normalized_lon.f]
    IN  [sign |-> SIGNS[idx + 1], degree |-> Round2(degree)]

-----------------------------------------------------------------------------
(* House Assigner: get_house_for_planet *)

\* the straddling house tested with "and" in place of "or"
house_test_and(planet_longitude, cusp_start, cusp_end) ==
    IF cusp_start > cusp_end
    THEN planet_longitude >= cusp_start /\ planet_longitude < cusp_end
    ELSE cusp_start <= planet_longitude /\ planet_longitude < cusp_end

\* both bounds flipped: the end cusp inclusive, the start cusp exclusive
house_test_upper(planet_longitude, cusp_start, cusp_end) ==
    IF cusp_start > cusp_end
    THEN planet_longitude > cusp_start \/ planet_longitude <= cusp_end
    ELSE cusp_start < planet_longitude /\ planet_longitude <= cusp_end

\* the membership test of one house, the body of the loop
house_test(planet_longitude, cusp_start, cusp_end) ==
    IF cusp_start > cusp_end
    THEN planet_longitude >= cusp_start \/ planet_longitude < cusp_end
    ELSE cusp_start <= planet_longitude /\ planet_longitude < cusp_end

\* for i in range(12): the first house that matches, else the default 1
RECURSIVE house_scan(_, _, _)
house_scan(i, planet_longitude, cusps) ==
    IF i = 12 THEN 1
    ELSE IF house_test(planet_longitude, cusps[i + 1], cusps[((i + 1) % 12) + 1])
         THEN i + 1
         ELSE house_scan(i + 1, planet_longitude, cusps)

get_house_for_planet(planet_longitude, houses) ==
    LET cusps == [i \in 1..Len(houses) |-> houses[i].cusp]
    IN  house_scan(0, planet_longitude, cusps)

-----------------------------------------------------------------------------
(* Aspect Detector: normalize_angle, is_aspect_applying, calculate_aspects *)

normalize_angle(angle) ==
    LET a == angle % Full
    IN  IF a > Half THEN a - Full ELSE a

\* the distance of a signed difference to the exact aspect
aspect_distance(diff, aspect_angle) ==
    IF aspect_angle = Deg(0) THEN Abs(diff)
    ELSE IF aspect_angle = Deg(180) THEN Abs(Abs(diff) - Deg(180))
    ELSE Min(Abs(diff - aspect_angle), Abs(diff + aspect_angle))

\* the projection made with the first planet's speed alone
is_aspect_applying_own_speed(planet1_lon, planet1_speed, planet2_lon, planet2_speed, aspect_angle) ==
    LET current_diff == normalize_angle(planet1_lon - planet2_lon)
        relative_speed == planet1_speed
        current_distance == aspect_distance(current_diff, aspect_angle)
        future_diff == normalize_angle((planet1_lon + relative_speed \div 10) - planet2_lon)
        future_distance == aspect_distance(future_diff, aspect_angle)
    IN  IF future_distance < current_distance THEN "A" ELSE "S"

\* relative_speed * 0.1 is relative_speed \div 10: the speeds of the model are
\* multiples of 10 ticks a day, so the division is exact
is_aspect_applying(planet1_lon, planet1_speed, planet2_lon, planet2_speed, aspect_angle) ==
    LET current_diff == normalize_angle(planet1_lon - planet2_lon)
        relative_speed == planet1_speed - planet2_speed
        current_distance == aspect_distance(current_diff, aspect_angle)
        future_diff == normalize_angle((planet1_lon + relative_speed \div 10) - planet2_lon)
        future_distance == aspect_distance(future_diff, aspect_angle)
    IN  IF future_distance < current_distance THEN "A" ELSE "S"

aspect_orbs ==
    << [key |-> "conjunction", angle |-> Deg(0),   orb |-> Deg(8), name |-> "Conjuncion"],
       [key |-> "opposition",  angle |-> Deg(180), orb |-> Deg(8), name |-> "Oposicion"],
       [key |-> "trine",       angle |-> Deg(120), orb |-> Deg(8), name |-> "Trigono"],
       [key |-> "square",      angle |-> Deg(90),  orb |-> Deg(8), name |-> "Cuadratura"],
       [key |-> "sextile",     angle |-> Deg(60),  orb |-> Deg(4), name |-> "Sextil"] >>

\* diff = abs(lon1 - lon2); if diff > 180: diff = 360 - diff
angular_separation(lon1, lon2) ==
    LET diff == Abs(lon1 - lon2)
    IN  IF diff > Deg(180) THEN Full - diff ELSE diff

\* one aspect record, as appended to the list
aspect_record(name1, lon1, speed1, name2, lon2, speed2, type, aspect_data) ==
    [planet1 |-> name1,
     planet2 |-> name2,
     aspect |-> aspect_data.name,
     orb |-> Round2(Dec(Abs(angular_separation(lon1, lon2) - aspect_data.angle))),
     angle |-> aspect_data.angle,
     applying |-> is_aspect_applying(lon1, speed1, lon2, speed2, aspect_data.angle),
     type |-> type]

\* the aspects of one pair of points when the tolerance bound is exclusive
RECURSIVE aspects_between_strict(_, _, _, _, _, _, _, _)
aspects_between_strict(name1, lon1, speed1, name2, lon2, speed2, type, k) ==
    IF k > Len(aspect_orbs) THEN << >>
    ELSE LET aspect_data == aspect_orbs[k]
             orb == Abs(angular_separation(lon1, lon2) - aspect_data.angle)
             rest == aspects_between_strict(name1, lon1, speed1, name2, lon2, speed2, type, k + 1)
         IN  IF orb < aspect_data.orb
             THEN <<aspect_record(name1, lon1, speed1, name2, lon2, speed2, type,
                                  aspect_data)>> \o rest
             ELSE rest

\* the aspects of one pair of points: for each aspect kind in catalogue order,
\* a record when the orb is within the tolerance
RECURSIVE aspects_between(_, _, _, _, _, _, _, _)
aspects_between(name1, lon1, speed1, name2, lon2, speed2, type, k) ==
    IF k > Len(aspect_orbs) THEN << >>
    ELSE LET aspect_data == aspect_orbs[k]
             orb == Abs(angular_separation(lon1, lon2) - aspect_data.angle)
             rest == aspects_between(name1, lon1, speed1, name2, lon2, speed2, type, k + 1)
         IN  IF orb <= aspect_data.orb
             THEN <<aspect_record(name1, lon1, speed1, name2, lon2, speed2, type,
                                  aspect_data)>> \o rest
             ELSE rest

\* the bodies, in the order of the PLANETS dict
PLANETS == <<"sun", "moon", "mercury", "venus", "mars", "jupiter", "saturn",
             "uranus", "neptune", "pluto", "north_node", "chiron">>

\* (the names are written without their accents)
PLANET_NAMES ==
    [sun |-> "Sol", moon |-> "Luna", mercury |-> "Mercurio", venus |-> "Venus",
     mars |-> "Marte", jupiter |-> "Jupiter", saturn |-> "Saturno",
     uranus |-> "Urano", neptune |-> "Neptuno", pluto |-> "Pluton",
     north_node |-> "Nodo Norte", chiron |-> "Quiron"]

\* The planets dict is a sequence of entries [key, value] in insertion order.
\* The aspects between planets: for i, for j > i, skipping empty values.
RECURSIVE planet_aspects(_, _, _)
planet_aspects(pl, i, j) ==
    IF i > Len(pl) THEN << >>
    ELSE IF j > Len(pl) THEN planet_aspects(pl, i + 1, i + 2)
    ELSE LET p1 == pl[i]
             p2 == pl[j]
             here == IF p1.value = None \/ p2.value = None THEN << >>
                     ELSE aspects_between(PLANET_NAMES[p1.key], p1.value.longitude,
                                          p1.value.speed,
                                          PLANET_NAMES[p2.key], p2.value.longitude,
                                          p2.value.speed, "planet-planet", 1)
         IN  here \o planet_aspects(pl, i, j + 1)

\* The aspects of every planet to one angle, which does not move (speed 0).
RECURSIVE angle_aspects(_, _, _, _)
angle_aspects(pl, i, angle_name, angle_lon) ==
    IF i > Len(pl) THEN << >>
    ELSE LET p == pl[i]
             here == IF p.value = None THEN << >>
                     ELSE aspects_between(PLANET_NAMES[p.key], p.value.longitude,
                                          p.value.speed, angle_name, angle_lon, 0,
                                          "planet-angle", 1)
         IN  here \o angle_aspects(pl, i + 1, angle_name, angle_lon)

\* An optional angle is << >> (None, the default) or <<longitude>>.
calculate_aspects(pl, ascendant_lon, mc_lon) ==
    planet_aspects(pl, 1, 2)
    \o (IF ascendant_lon /= << >>
        THEN angle_aspects(pl, 1, "Ascendente", ascendant_lon[1]) ELSE << >>)
    \o (IF mc_lon /= << >>
        THEN angle_aspects(pl, 1, "Medio Cielo", mc_lon[1]) ELSE << >>)

-----------------------------------------------------------------------------
(* The functions on their own: each specification draws the arguments of   *)
(* one function from a bounded set and applies the function to them.       *)

\* the request handler's variables while a function is studied on its own
NoRequest ==
    /\ data = None /\ parsed = None /\ utc = None /\ julian_day = None
    /\ houses_data = None /\ planets = << >> /\ failed_planets = << >>
    /\ aspects = << >> /\ response = None /\ calls = << >>

RequestUnchanged ==
    UNCHANGED <<data, parsed, utc, julian_day, houses_data, planets,
                failed_planets, aspects, response, calls>>

RECURSIVE SortedSeq(_)
SortedSeq(S) ==
    IF S = {} THEN << >>
    ELSE LET m == CHOOSE x \in S : \A y \in S : x <= y
         IN  <<m>> \o SortedSeq(S \ {m})

(* get_house_for_planet *)

\* points of the circle the cusps are drawn from
HouseGrid == 13

HouseGridPoints == {k * (Full \div HouseGrid) : k \in 0..(HouseGrid - 1)}

\* a well-formed cusp list: 12 distinct longitudes of [0, 360) in increasing
\* order around the circle, starting at any of them
WellFormedCusps ==
    {[i \in 1..12 |-> SortedSeq(S)[((i - 1 + r) % 12) + 1]] :
        S \in {T \in SUBSET HouseGridPoints : Cardinality(T) = 12}, r \in 0..11}

\* body longitudes: on the grid, one tick after and one tick before
HouseLongitudes ==
    HouseGridPoints \cup {g + 1 : g \in HouseGridPoints}
                    \cup {(g - 1) % Full : g \in HouseGridPoints}

HouseInit ==
    /\ pc = "house_call"
    /\ \E cusps \in WellFormedCusps, lon \in HouseLongitudes :
          args = [planet_longitude |-> lon,
                  houses |-> [i \in 1..12 |-> [house_number |-> i, cusp |-> cusps[i]]]]
    /\ result = None
    /\ NoRequest

HouseCall ==
    /\ pc = "house_call"
    /\ pc' = "house_return"
    /\ result' = [house |-> get_house_for_planet(args.planet_longitude, args.houses)]
    /\ UNCHANGED args
    /\ RequestUnchanged

SpecHouse == HouseInit /\ [][HouseCall]_vars

\* the cusp list of the call, and the houses whose membership test the
\* longitude of the call satisfies
ArgCusps == [i \in 1..12 |-> args.houses[i].cusp]

HousesMatching ==
    {i \in 1..12 : house_test(args.planet_longitude, ArgCusps[i], ArgCusps[(i % 12) + 1])}

\* C1: for every longitude of [0, 360) and every well-formed list of 12 cusps,
\* get_house_for_planet returns a house number of 1..12 and exactly one of the
\* 12 membership tests is satisfied, the one of the house returned: no
\* longitude matches two houses or none, and the default is never reached.
C1_ExactlyOneHouse ==
    pc = "house_return" =>
        /\ result.house \in 1..12
        /\ Cardinality(HousesMatching) = 1
        /\ result.house \in HousesMatching

\* a body in the part after 0 degrees of the house that straddles it, which
\* is not house 1
C1_Witness ==
    /\ pc = "house_return"
    /\ result.house = 7
    /\ ArgCusps[7] > ArgCusps[8]
    /\ args.planet_longitude < ArgCusps[8]

\* the arc of house h, from its cusp forward to the next one, holds the longitude
InArc(lon, h) ==
    (lon - ArgCusps[h]) % Full < (ArgCusps[(h % 12) + 1] - ArgCusps[h]) % Full

\* C10: get_house_for_planet returns the house whose half-open arc, from its
\* cusp (inclusive) forward around the circle to the next cusp (exclusive),
\* holds the longitude: a body on a cusp is in the house that starts there,
\* and a body at or after the start, or before the end, of the house that
\* straddles 0 degrees is in that house.
C10_HalfOpenArc ==
    pc = "house_return" =>
        /\ InArc(args.planet_longitude, result.house)
        /\ \A h \in 1..12 :
              /\ args.planet_longitude = ArgCusps[h] => result.house = h
              /\ ( /\ ArgCusps[h] > ArgCusps[(h % 12) + 1]
                   /\ \/ args.planet_longitude >= ArgCusps[h]
                      \/ args.planet_longitude < ArgCusps[(h % 12) + 1] )
                 => result.house = h

\* a body exactly on the cusp of the house that straddles 0 degrees
C10_Witness ==
    /\ pc = "house_return"
    /\ \E h \in 1..12 :
          /\ ArgCusps[h] > ArgCusps[(h % 12) + 1]
          /\ args.planet_longitude = ArgCusps[h]
          /\ result.house = h

-----------------------------------------------------------------------------
(* get_sign *)

\* whole turns added to or taken from a longitude
MaxTurns == 1

\* longitudes of [0, 360): every sign boundary, one tick after it and one tick
\* before it, whole or with a fraction of a tick
SignBases ==
    {[t |-> (Deg(30) * s + d) % Full, f |-> f] : s \in 0..11, d \in {-1, 0, 1}, f \in {0, 4}}

SignInit ==
    /\ pc = "sign_call"
    /\ \E b \in SignBases, k \in (-MaxTurns)..MaxTurns :
          args = [longitude |-> [t |-> b.t + k * Full, f |-> b.f]]
    /\ result = None
    /\ NoRequest

\* the call, with the locals normalized_lon and sign_index as they stand at
\* the return
SignCall ==
    /\ pc = "sign_call"
    /\ pc' = "sign_return"
    /\ result' = [ret |-> get_sign(args.longitude),
                  normalized_lon |-> sign_normalized_lon(args.longitude),
                  sign_index |-> sign_index(sign_normalized_lon(args.longitude))]
    /\ UNCHANGED args
    /\ RequestUnchanged

SpecSign == SignInit /\ [][SignCall]_vars

-----------------------------------------------------------------------------
(* is_aspect_applying and the aspects of one pair of points *)

\* points of the circle the first longitude is drawn from
AspectGrid == 4

\* the fastest body, in degrees a day (the Moon moves about 13)
MaxSpeed == 13

\* the second longitude is the first plus one of these: at, inside, on the
\* edge of and just outside the tolerance of every aspect, on both sides
AspectOffsets ==
    {0, 1, Deg(1) \div 2, Deg(5), Deg(8), Deg(8) + 1,
     Deg(56) - 1, Deg(56), Deg(60), Deg(64), Deg(82), Deg(90), Deg(98),
     Deg(112), Deg(120), Deg(128), Deg(172), Deg(180) - 1, Deg(180), Deg(180) + 1,
     Deg(188), Deg(240), Deg(270), Deg(300), Deg(355), Full - Deg(1) \div 2}

\* speeds in ticks a day, multiples of 10 ticks, direct and retrograde
AspectSpeeds ==
    {Deg(-MaxSpeed), Deg(-1), 0, Deg(1) \div 20, Deg(1), Deg(MaxSpeed)}

AspectInit ==
    /\ pc = "aspect_call"
    /\ \E k \in 0..(AspectGrid - 1), off \in AspectOffsets,
          speedA \in AspectSpeeds, speedB \in AspectSpeeds :
          args = [A |-> [longitude |-> k * (Full \div AspectGrid), speed |-> speedA],
                  B |-> [longitude |-> (k * (Full \div AspectGrid) + off) % Full,
                         speed |-> speedB]]
    /\ result = None
    /\ NoRequest

\* the pair evaluated as (A, B) and as (B, A): the aspects recorded, and the
\* flag of is_aspect_applying for every aspect angle of the catalogue
AspectCall ==
    /\ pc = "aspect_call"
    /\ pc' = "aspect_return"
    /\ LET A == args.A
           B == args.B
       IN  result' =
             [ab |-> aspects_between("A", A.longitude, A.speed,
                                     "B", B.longitude, B.speed, "planet-planet", 1),
              ba |-> aspects_between("B", B.longitude, B.speed,
                                     "A", A.longitude, A.speed, "planet-planet", 1),
              applying_ab |-> [k \in 1..Len(aspect_orbs) |->
                                 is_aspect_applying(A.longitude, A.speed, B.longitude,
                                                    B.speed, aspect_orbs[k].angle)],
              applying_ba |-> [k \in 1..Len(aspect_orbs) |->
                                 is_aspect_applying(B.longitude, B.speed, A.longitude,
                                                    A.speed, aspect_orbs[k].angle)]]
    /\ UNCHANGED args
    /\ RequestUnchanged

SpecAspect == AspectInit /\ [][AspectCall]_vars

ConjunctionDiff == normalize_angle(args.A.longitude - args.B.longitude)

ConjunctionRelSpeed == args.A.speed - args.B.speed

WithinConjunctionOrb ==
    /\ angular_separation(args.A.longitude, args.B.longitude) > 0
    /\ angular_separation(args.A.longitude, args.B.longitude) <= Deg(8)

SeparationShrinking ==
    \/ (ConjunctionDiff > 0 /\ ConjunctionRelSpeed < 0)
    \/ (ConjunctionDiff < 0 /\ ConjunctionRelSpeed > 0)

SeparationGrowing ==
    \/ (ConjunctionDiff > 0 /\ ConjunctionRelSpeed > 0)
    \/ (ConjunctionDiff < 0 /\ ConjunctionRelSpeed < 0)

\* C3: for two points within the orb of a conjunction (separation in (0, 8])
\* and any signed speeds, a separation that is shrinking is classified
\* applying ("A") and one that is growing is classified separating ("S").
C3_ConjunctionDirection ==
    (pc = "aspect_return" /\ WithinConjunctionOrb) =>
        /\ SeparationShrinking => result.applying_ab[1] = "A"
        /\ SeparationGrowing => result.applying_ab[1] = "S"

-----------------------------------------------------------------------------
(* The request handler calculate_natal_chart: the request's JSON body      *)

\* A JSON value is null, a number, or a string.  A date or time string is
\* the list of the parts split() gives, each part one int() accepts
\* (Tok(n)) or one it refuses (BadTok); a timezone string is its name.
JNull == [type |-> "null"]

JAbsent == [type |-> "absent"]

JNum(v) == [type |-> "num", val |-> v]

Tok(n) == [int |-> TRUE, val |-> n]

BadTok == [int |-> FALSE, val |-> 0]

JParts(parts) == [type |-> "str", parts |-> parts]

JName(name) == [type |-> "str", name |-> name]

\* float(x): a number, or a string of one numeric part; raises on None and on
\* any other string
py_float(x) ==
    IF x.type = "num" THEN [ok |-> TRUE, val |-> x.val]
    ELSE IF x.type = "str" /\ Len(x.parts) = 1 /\ x.parts[1].int
         THEN [ok |-> TRUE, val |-> x.parts[1].val]
         ELSE [ok |-> FALSE, val |-> 0]

\* a, b, ... = map(int, s.split(sep)) for n targets: raises when s is None,
\* when the parts are not n, and when int() refuses a part
py_split_ints(x, n) ==
    IF x.type = "str" /\ Len(x.parts) = n /\ \A i \in 1..n : x.parts[i].int
    THEN [ok |-> TRUE, val |-> [i \in 1..n |-> x.parts[i].val]]
    ELSE [ok |-> FALSE, val |-> << >>]

\* lines 442-453: the parsed input, or the exception raised on the way
parse_input(d) ==
    LET latitude == py_float(d.latitude)
        longitude == py_float(d.longitude)
        timezone == IF d.timezone = JAbsent THEN JName("UTC") ELSE d.timezone
        ymd == py_split_ints(d.birthDate, 3)
        hm == py_split_ints(d.birthTime, 2)
    IN  IF ~latitude.ok THEN [ok |-> FALSE, error |-> "float(latitude)"]
        ELSE IF ~longitude.ok THEN [ok |-> FALSE, error |-> "float(longitude)"]
        ELSE IF ~ymd.ok THEN [ok |-> FALSE, error |-> "birth_date"]
        ELSE IF ~hm.ok THEN [ok |-> FALSE, error |-> "birth_time"]
        ELSE [ok |-> TRUE,
              value |-> [year |-> ymd.val[1], month |-> ymd.val[2], day |-> ymd.val[3],
                         hour |-> hm.val[1], minute |-> hm.val[2],
                         latitude |-> latitude.val, longitude |-> longitude.val,
                         timezone |-> timezone]]

-----------------------------------------------------------------------------
(* Time Normalizer: convert_local_to_utc, calculate_julian_day *)

is_leap(year) == (year % 4 = 0 /\ year % 100 /= 0) \/ year % 400 = 0

days_in_month(year, month) ==
    IF month = 2 THEN (IF is_leap(year) THEN 29 ELSE 28)
    ELSE IF month \in {4, 6, 9, 11} THEN 30 ELSE 31

\* datetime(year, month, day, hour, minute) raises ValueError unless
valid_datetime(year, month, day, hour, minute) ==
    /\ year \in 1..9999
    /\ month \in 1..12
    /\ day >= 1 /\ day <= days_in_month(year, month)
    /\ hour \in 0..23
    /\ minute \in 0..59

\* The Timezone Database: the zones known, and the offset of each from UTC in
\* minutes, standard and during the summer months.
TZ_ZONES ==
    ("UTC" :> [std |-> 0, dst |-> 0])
    @@ ("Europe/Madrid" :> [std |-> 60, dst |-> 120])
    @@ ("America/New_York" :> [std |-> -300, dst |-> -240])

\* pytz.timezone(timezone_str) raises unless
tz_known(timezone_str) ==
    timezone_str.type = "str" /\ timezone_str.name \in DOMAIN TZ_ZONES

\* the offset localize() finds for a local date
tz_offset(name, month) ==
    IF month \in 4..10 THEN TZ_ZONES[name].dst ELSE TZ_ZONES[name].std

prev_day(year, month, day) ==
    IF day > 1 THEN [year |-> year, month |-> month, day |-> day - 1]
    ELSE IF month > 1
         THEN [year |-> year, month |-> month - 1, day |-> days_in_month(year, month - 1)]
         ELSE [year |-> year - 1, month |-> 12, day |-> 31]

next_day(year, month, day) ==
    IF day < days_in_month(year, month)
    THEN [year |-> year, month |-> month, day |-> day + 1]
    ELSE IF month < 12 THEN [year |-> year, month |-> month + 1, day |-> 1]
         ELSE [year |-> year + 1, month |-> 1, day |-> 1]

\* local_dt.astimezone(pytz.UTC): the local time less the zone's offset
astimezone_utc(year, month, day, hour, minute, offset) ==
    LET total == hour * 60 + minute - offset
        date == IF total < 0 THEN prev_day(year, month, day)
                ELSE IF total >= 1440 THEN next_day(year, month, day)
                ELSE [year |-> year, month |-> month, day |-> day]
        m == total % 1440
    IN  [year |-> date.year, month |-> date.month, day |-> date.day,
         hour |-> m \div 60, minute |-> m % 60]

\* an exception that leaves a function
Raised == [raised |-> TRUE]

\* the conversion without its except clause
convert_local_to_utc_uncaught(year, month, day, hour, minute, timezone_str) ==
    IF tz_known(timezone_str) /\ valid_datetime(year, month, day, hour, minute)
    THEN astimezone_utc(year, month, day, hour, minute, tz_offset(timezone_str.name, month))
    ELSE Raised

\* The try block converts; any exception ends in the except clause, which
\* returns the input.  The input has no seconds and the offsets are whole
\* minutes, so utc_dt.second is 0.
convert_local_to_utc(year, month, day, hour, minute, timezone_str) ==
    IF tz_known(timezone_str) /\ valid_datetime(year, month, day, hour, minute)
    THEN astimezone_utc(year, month, day, hour, minute, tz_offset(timezone_str.name, month))
    ELSE [year |-> year, month |-> month, day |-> day, hour |-> hour, minute |-> minute]

\* decimal_time = hour + minute / 60.0, counted in minutes; swe.julday is the
\* Ephemeris Provider's and is kept as the term julday(year, month, day, time)
calculate_julian_day(year, month, day, hour, minute) ==
    [julday |-> <<year, month, day, hour * 60 + minute>>]

-----------------------------------------------------------------------------
(* The Ephemeris Provider's answers, and what the program keeps of them *)

\* swe.houses: it raises, or returns 12 cusps and the angles.  The cusps go
\* once around the circle from the Ascendant; opposite cusps are 180 apart.
HouseGaps ==
    <<Deg(0), Deg(25), Deg(55), Deg(90), Deg(125), Deg(155),
      Deg(180), Deg(205), Deg(235), Deg(270), Deg(305), Deg(335)>>

\* the Ascendants the provider may return, all within [0, 360)
ProviderAscendants ==
    {Dec(Deg(350)), [t |-> Deg(15) + 123456, f |-> 4], [t |-> Full - 1, f |-> 6]}

ProviderHouses ==
    {Raised} \cup
    {[houses |-> [i \in 1..12 |-> [t |-> (asc.t + HouseGaps[i]) % Full, f |-> asc.f]],
      ascmc |-> <<asc,
                  [t |-> (asc.t + HouseGaps[10]) % Full, f |-> asc.f],
                  [t |-> (asc.t + Deg(100)) % Full, f |-> asc.f],
                  [t |-> (asc.t + Deg(200)) % Full, f |-> asc.f]>>] :
        asc \in ProviderAscendants}

\* swe.calc_ut: it raises, or returns a longitude within [0, 360) and a speed
\* (the latitude and the distance are copied to the result and read by nothing)
ProviderPositions ==
    {Raised,
     [longitude |-> Dec(Deg(5)), speed |-> Dec(Deg(1))],
     [longitude |-> [t |-> Deg(190) + 250000, f |-> 3], speed |-> [t |-> -Deg(1) \div 2, f |-> 0]],
     [longitude |-> [t |-> Full - 1, f |-> 7], speed |-> Dec(Deg(MaxSpeed))]}

house_names ==
    <<"Casa 1 (AC)", "Casa 2", "Casa 3", "Casa 4 (FC)", "Casa 5", "Casa 6",
      "Casa 7 (DC)", "Casa 8", "Casa 9", "Casa 10 (MC)", "Casa 11", "Casa 12">>

\* a point of the chart: its rounded longitude and the sign of the longitude
\* as returned (degree_dms, a rendering of the degree, is left out)
angle_point(raw) ==
    [longitude |-> Round6(raw), sign |-> get_sign(raw).sign, degree |-> get_sign(raw).degree]

\* swe_houses is what swe.houses answered this call
calculate_houses(jd, latitude, longitude, swe_houses) ==
    IF swe_houses = Raised THEN None
    ELSE [houses |-> [i \in 1..12 |->
                        [house |-> house_names[i],
                         house_number |-> i,
                         cusp |-> Round6(swe_houses.houses[i]),
                         sign |-> get_sign(swe_houses.houses[i]).sign,
                         degree |-> get_sign(swe_houses.houses[i]).degree]],
          ascendant |-> angle_point(swe_houses.ascmc[1]),
          mc |-> angle_point(swe_houses.ascmc[2]),
          vertex |-> angle_point(swe_houses.ascmc[4])]

\* swe_calc_ut is what swe.calc_ut answered this call
calculate_planet_position(jd, planet_id, swe_calc_ut) ==
    IF swe_calc_ut = Raised THEN None
    ELSE [longitude |-> Round6(swe_calc_ut.longitude),
          speed |-> Round6(swe_calc_ut.speed),
          sign |-> get_sign(swe_calc_ut.longitude).sign,
          degree |-> get_sign(swe_calc_ut.longitude).degree]

-----------------------------------------------------------------------------
(* The request handler calculate_natal_chart, step by step *)

\* the bodies of PLANETS the model computes: the first NumBodies
NumBodies == 3

\* the requests: every field present or missing, well or ill formed
RequestDates ==
    {JNull, JParts(<<Tok(2024), Tok(2)>>), JParts(<<Tok(2024), BadTok, Tok(1)>>),
     JParts(<<Tok(2023), Tok(12), Tok(31)>>), JParts(<<Tok(2024), Tok(1), Tok(1)>>),
     JParts(<<Tok(2024), Tok(7), Tok(1)>>), JParts(<<Tok(2024), Tok(2), Tok(30)>>)}

RequestTimes ==
    {JNull, JParts(<<Tok(12)>>), JParts(<<Tok(12), BadTok>>),
     JParts(<<Tok(0), Tok(30)>>), JParts(<<Tok(23), Tok(30)>>), JParts(<<Tok(25), Tok(0)>>)}

RequestTimezones ==
    {JAbsent, JNull, JName("Europe/Madrid"), JName("America/New_York"),
     JName("Nowhere/Zone")}

Requests ==
    [birthDate : RequestDates,
     birthTime : RequestTimes,
     latitude : {JNum(40), JParts(<<BadTok>>)},
     longitude : {JNum(-3), JNull},
     timezone : RequestTimezones]

\* one computation performed for the request
Call(fn, arg) == [fn |-> fn, arg |-> arg]

\* jsonify({'error': ...}), 500
ErrorResponse(message) == [status |-> 500, body |-> [error |-> message]]

\* the test of line 471 left out
houses_failed_never(hd) == FALSE

\* if not houses_data
houses_failed(hd) == hd = None

Init ==
    /\ pc = "request"
    /\ data \in Requests
    /\ parsed = None /\ utc = None /\ julian_day = None /\ houses_data = None
    /\ planets = << >> /\ failed_planets = << >> /\ aspects = << >>
    /\ response = None /\ calls = << >>
    /\ args = None /\ result = None

\* lines 442-456: an exception ends the request in the handler's except clause
Parse ==
    /\ pc = "request"
    /\ LET p == parse_input(data)
       IN  IF p.ok
           THEN /\ parsed' = p.value
                /\ pc' = "convert"
                /\ UNCHANGED response
           ELSE /\ response' = ErrorResponse(p.error)
                /\ pc' = "done"
                /\ UNCHANGED parsed
    /\ UNCHANGED <<args, result, data, utc, julian_day, houses_data, planets,
                   failed_planets, aspects, calls>>

\* lines 458-463
Convert ==
    /\ pc = "convert"
    /\ calls' = Append(calls, Call("convert_local_to_utc", ""))
    /\ LET r == convert_local_to_utc(parsed.year, parsed.month, parsed.day,
                                     parsed.hour, parsed.minute, parsed.timezone)
       IN  IF r = Raised
           THEN /\ response' = ErrorResponse("convert_local_to_utc")
                /\ pc' = "done"
                /\ UNCHANGED utc
           ELSE /\ utc' = r
                /\ pc' = "julian_day"
                /\ UNCHANGED response
    /\ UNCHANGED <<args, result, data, parsed, julian_day, houses_data, planets,
                   failed_planets, aspects>>

\* lines 465-467
JulianDay ==
    /\ pc = "julian_day"
    /\ calls' = Append(calls, Call("calculate_julian_day", ""))
    /\ julian_day' = calculate_julian_day(utc.year, utc.month, utc.day, utc.hour, utc.minute)
    /\ pc' = "houses"
    /\ UNCHANGED <<args, result, data, parsed, utc, houses_data, planets,
                   failed_planets, aspects, response>>

\* lines 469-474
Houses ==
    /\ pc = "houses"
    /\ calls' = Append(calls, Call("calculate_houses", ""))
    /\ \E swe_houses \in ProviderHouses :
          /\ houses_data' = calculate_houses(julian_day, parsed.latitude,
                                             parsed.longitude, swe_houses)
          /\ IF houses_failed(houses_data')
             THEN /\ response' = ErrorResponse("Failed to calculate houses")
                  /\ pc' = "done"
             ELSE /\ pc' = "planets"
                  /\ UNCHANGED response
    /\ UNCHANGED <<args, result, data, parsed, utc, julian_day, planets,
                   failed_planets, aspects>>

\* the bodies computed so far, found or failed
BodiesDone == Len(planets) + Len(failed_planets)

\* lines 479-491, one turn of the loop.  houses_data['houses'] of a
\* houses_data that is None raises, which ends the request in the except
\* clause.
Planet ==
    /\ pc = "planets"
    /\ BodiesDone < NumBodies
    /\ LET planet_key == PLANETS[BodiesDone + 1]
       IN  /\ calls' = Append(calls, Call("calculate_planet_position", planet_key))
           /\ \E swe_calc_ut \in ProviderPositions :
                LET position == calculate_planet_position(julian_day, planet_key, swe_calc_ut)
                IN  IF position = None
                    THEN /\ failed_planets' = Append(failed_planets, planet_key)
                         /\ UNCHANGED <<planets, response, pc>>
                    ELSE IF houses_data = None
                    THEN /\ response' = ErrorResponse("houses_data['houses']")
                         /\ pc' = "done"
                         /\ UNCHANGED <<planets, failed_planets>>
                    ELSE /\ planets' =
                              Append(planets,
                                     [key |-> planet_key,
                                      value |->
                                        [name |-> PLANET_NAMES[planet_key],
                                         house |-> get_house_for_planet(position.longitude,
                                                                        houses_data.houses),
                                         longitude |-> position.longitude,
                                         speed |-> position.speed,
                                         sign |-> position.sign,
                                         degree |-> position.degree]])
                         /\ UNCHANGED <<failed_planets, response, pc>>
    /\ UNCHANGED <<args, result, data, parsed, utc, julian_day, houses_data, aspects>>

\* lines 506-525 (calculatedAt, the time of the answer, is left out)
chart_data(d, p, u, jd, hd, pl, asp) ==
    [birthInfo |-> [date |-> d.birthDate, time |-> d.birthTime,
                    latitude |-> p.latitude, longitude |-> p.longitude,
                    timezone |-> p.timezone, julianDay |-> jd, utcTime |-> u],
     planets |-> pl,
     houses |-> hd.houses,
     ascendant |-> hd.ascendant,
     mc |-> hd.mc,
     vertex |-> hd.vertex,
     aspects |-> asp,
     precision |-> "high",
     ephemeris |-> "Swiss Ephemeris"]

\* lines 493-527: the aspects and the answer
Assemble ==
    /\ pc = "planets"
    /\ BodiesDone = NumBodies
    /\ pc' = "done"
    /\ IF houses_data = None
       THEN /\ response' = ErrorResponse("houses_data['ascendant']")
            /\ UNCHANGED <<aspects, calls>>
       ELSE /\ calls' = Append(calls, Call("calculate_aspects", ""))
            /\ aspects' = calculate_aspects(planets, <<houses_data.ascendant.longitude>>,
                                            <<houses_data.mc.longitude>>)
            /\ response' = [status |-> 200,
                            body |-> [success |-> TRUE,
                                      chartData |-> chart_data(data, parsed, utc, julian_day,
                                                               houses_data, planets, aspects')]]
    /\ UNCHANGED <<args, result, data, parsed, utc, julian_day, houses_data,
                   planets, failed_planets>>

Next == Parse \/ Convert \/ JulianDay \/ Houses \/ Planet \/ Assemble

Spec == Init /\ [][Next]_vars

-----------------------------------------------------------------------------
(* The request handler's claims *)

Performed(fn) == \E i \in 1..Len(calls) : calls[i].fn = fn

\* the keys of the planets dict of the answer
ChartPlanetKeys ==
    {response.body.chartData.planets[i].key :
        i \in 1..Len(response.body.chartData.planets)}

\* the list of failed bodies the answer carries, empty when it carries none
ReportedFailed ==
    IF "failed_planets" \in DOMAIN response.body.chartData
    THEN response.body.chartData.failed_planets
    ELSE IF "failed_planets" \in DOMAIN response.body
         THEN response.body.failed_planets
         ELSE << >>

\* C4: when the house query succeeds and the provider fails for any subset of
\* the bodies, the request succeeds, the planets of the chart are exactly the
\* bodies whose query succeeded, and the answer carries the list of the
\* bodies that failed.
C4_FailedBodiesSurfaced ==
    (pc = "done" /\ Performed("calculate_houses") /\ houses_data /= None) =>
        /\ response.status = 200
        /\ ChartPlanetKeys =
             {PLANETS[i] : i \in 1..NumBodies} \ {failed_planets[i] : i \in 1..Len(failed_planets)}
        /\ ReportedFailed = failed_planets

\* the house query was made and failed
HousesQueryFailed == Performed("calculate_houses") /\ houses_data = None

\* C5: the house query is issued before any body query; if it fails, the
\* request ends with an error result, no chart data is returned, and no body
\* query and no aspect computation is performed.
C5_HousesFirstAndFatal ==
    /\ \A i \in 1..Len(calls) :
          calls[i].fn = "calculate_planet_position" =>
              \E j \in 1..(i - 1) : calls[j].fn = "calculate_houses"
    /\ HousesQueryFailed =>
          /\ pc = "done"
          /\ response.status = 500
          /\ "chartData" \notin DOMAIN response.body
          /\ ~Performed("calculate_planet_position")
          /\ ~Performed("calculate_aspects")
          /\ planets = << >> /\ failed_planets = << >> /\ aspects = << >>

\* a request ended by the failure of the house query
C5_Witness ==
    /\ pc = "done"
    /\ HousesQueryFailed
    /\ response = ErrorResponse("Failed to calculate houses")

\* the conversion in the try block raises: the zone is unknown, or the local
\* date and time are not valid
ConversionRaises ==
    \/ ~tz_known(parsed.timezone)
    \/ ~valid_datetime(parsed.year, parsed.month, parsed.day, parsed.hour, parsed.minute)

\* C6: convert_local_to_utc never raises: when the timezone identifier is
\* unrecognized or the conversion raises, it returns the input year, month,
\* day, hour and minute unchanged, and the request goes on to the Julian Day
\* and the house computation instead of ending there.
C6_UtcFallback ==
    Performed("convert_local_to_utc") =>
        /\ utc /= None
        /\ pc \notin {"request", "convert"}
        /\ ConversionRaises =>
              /\ utc = [year |-> parsed.year, month |-> parsed.month, day |-> parsed.day,
                        hour |-> parsed.hour, minute |-> parsed.minute]
              /\ pc = "julian_day" \/ Performed("calculate_julian_day")
              /\ pc \in {"julian_day", "houses"} \/ Performed("calculate_houses")

\* a chart computed for a request whose timezone is not a known zone, with
\* the local time taken as UTC
C6_Witness ==
    /\ pc = "done"
    /\ response.status = 200
    /\ parsed.timezone = JName("Nowhere/Zone")
    /\ utc.hour = parsed.hour /\ utc.minute = parsed.minute /\ utc.day = parsed.day
    /\ julian_day = calculate_julian_day(parsed.year, parsed.month, parsed.day,
                                         parsed.hour, parsed.minute)

\* the request's input is malformed: a field missing or of the wrong shape,
\* or a date or time that is no calendar date or clock time
MalformedInput ==
    LET p == parse_input(data)
    IN  \/ ~p.ok
        \/ ~valid_datetime(p.value.year, p.value.month, p.value.day,
                           p.value.hour, p.value.minute)

\* C7: every request with malformed input ends with an error result, before
\* any computation: no time conversion, Julian Day, house or body query.
C7_MalformedFailsFast ==
    MalformedInput =>
        /\ calls = << >>
        /\ pc = "done" => response.status = 500

\* the longitudes the house and aspect computations consume
StoredLongitudes ==
    {planets[i].value.longitude : i \in 1..Len(planets)}
    \cup (IF houses_data = None THEN {}
          ELSE {houses_data.houses[i].cusp : i \in 1..12}
               \cup {houses_data.ascendant.longitude, houses_data.mc.longitude})

\* C9: every longitude that reaches the house or aspect computation (body
\* longitudes, house cusps, Ascendant, MC) lies in [0, 360), after the
\* rounding to 6 decimals.
C9_LongitudesNormalized ==
    \A lon \in StoredLongitudes : lon >= 0 /\ lon < Full

-----------------------------------------------------------------------------
(* calculate_aspects on a whole planets dict with the two angles *)

\* entries of the planets dict
AspectBodies == 3

\* longitudes of the bodies: 10 and 190 degrees are opposite; from 10 degrees
\* the others are on the edge of the conjunction (8), one tick outside it, on
\* the edge of the sextile (64) and inside the trine with an orb of six
\* decimals (120.123456)
AspectsLongitudes ==
    {Deg(10), Deg(18), Deg(18) + 1, Deg(74), Deg(130) + 123456, Deg(190)}

\* the value of a body: None, or its position
AspectsValues ==
    {None} \cup {[longitude |-> lon, speed |-> Deg(1)] : lon \in AspectsLongitudes}

\* the optional longitude of an angle: absent (the default None), or given
AspectsAngles == {<< >>, <<Deg(280)>>, <<Deg(6) + 4321>>}

AspectsInit ==
    /\ pc = "aspects_call"
    /\ \E values \in [1..AspectBodies -> AspectsValues],
          ascendant_lon \in AspectsAngles, mc_lon \in AspectsAngles :
          args = [planets |-> [i \in 1..AspectBodies |->
                                 [key |-> PLANETS[i], value |-> values[i]]],
                  ascendant_lon |-> ascendant_lon,
                  mc_lon |-> mc_lon]
    /\ result = None
    /\ NoRequest

AspectsCall ==
    /\ pc = "aspects_call"
    /\ pc' = "aspects_return"
    /\ result' = [aspects |-> calculate_aspects(args.planets, args.ascendant_lon,
                                                args.mc_lon)]
    /\ UNCHANGED args
    /\ RequestUnchanged

SpecAspects == AspectsInit /\ [][AspectsCall]_vars

\* the aspect kinds as the claim lists them: name, exact angle, tolerance
AspectKinds ==
    {[name |-> "Conjuncion", angle |-> Deg(0), tolerance |-> Deg(8)],
     [name |-> "Oposicion", angle |-> Deg(180), tolerance |-> Deg(8)],
     [name |-> "Trigono", angle |-> Deg(120), tolerance |-> Deg(8)],
     [name |-> "Cuadratura", angle |-> Deg(90), tolerance |-> Deg(8)],
     [name |-> "Sextil", angle |-> Deg(60), tolerance |-> Deg(4)]}

\* the minimal angular distance of two longitudes, in [0, 180]
MinimalDistance(lon1, lon2) == Min((lon1 - lon2) % Full, (lon2 - lon1) % Full)

\* the positions of the bodies that were computed
ComputedBodies == {i \in 1..Len(args.planets) : args.planets[i].value /= None}

\* the pairs of points of the call: every unordered pair of computed bodies,
\* and every computed body with each angle that was given
PointPairs ==
    {[planet1 |-> PLANET_NAMES[args.planets[i].key],
      planet2 |-> PLANET_NAMES[args.planets[j].key],
      separation |-> MinimalDistance(args.planets[i].value.longitude,
                                     args.planets[j].value.longitude)] :
        <<i, j>> \in {ij \in ComputedBodies \X ComputedBodies : ij[1] < ij[2]}}
    \cup (IF args.ascendant_lon = << >> THEN {}
          ELSE {[planet1 |-> PLANET_NAMES[args.planets[i].key],
                 planet2 |-> "Ascendente",
                 separation |-> MinimalDistance(args.planets[i].value.longitude,
                                                args.ascendant_lon[1])] :
                   i \in ComputedBodies})
    \cup (IF args.mc_lon = << >> THEN {}
          ELSE {[planet1 |-> PLANET_NAMES[args.planets[i].key],
                 planet2 |-> "Medio Cielo",
                 separation |-> MinimalDistance(args.planets[i].value.longitude,
                                                args.mc_lon[1])] :
                   i \in ComputedBodies})

\* the records of the returned list for one pair and one kind
RecordsOf(pair, kind) ==
    {n \in 1..Len(result.aspects) :
        /\ result.aspects[n].planet1 = pair.planet1
        /\ result.aspects[n].planet2 = pair.planet2
        /\ result.aspects[n].aspect = kind.name}

\* every record of the returned list belongs to a pair of the call and a kind
EveryRecordOfAPair ==
    \A n \in 1..Len(result.aspects) :
        \E pair \in PointPairs, kind \in AspectKinds : n \in RecordsOf(pair, kind)

=============================================================================
